---- MODULE Spec2Model ----
(***************************************************************************)
(* A model of the tractor actor runtime (src/tractor/_actor.py).           *)
(*                                                                         *)
(* One actor is modelled.  Its remote peers are the environment: they open *)
(* connections, send requests, replies and terminators, and close.         *)
(* Every action is the code one trio task runs between two checkpoints     *)
(* (trio schedules cooperatively: a task is only left at an await).        *)
(*                                                                         *)
(* The specifications share the variables:                                 *)
(*   Spec       the message loop's request dispatch, the invocation tasks  *)
(*              (_invoke) of every kind of callable, the rpc-task          *)
(*              bookkeeping                                                *)
(*   SpecCancel the same loop and tasks with requests for Actor.cancel     *)
(*   SpecCancelFair SpecCancel with the fairness of trio's scheduling      *)
(*   SpecPeers  the channel server's connection handler and the peer table *)
(*   SpecReply  the message loop's reply routing into the callers' queues  *)
(*   SpecDrop   the same routing with callers that let go of their queue   *)
(*   SpecError  the message loop on an error message without a call id     *)
(*   SpecArbiter the Arbiter's registry and its waiters                    *)
(*   SpecMain   Actor._async_main: startup, `except Exception`, teardown   *)
(***************************************************************************)
EXTENDS Integers, Sequences, FiniteSets, TLC

\* ---------------------------------------------------------------- bounds
NumChans == 2      \* channels of the actor that run a message loop
MaxCalls == 3      \* requests dispatched in one behaviour (call ids 1..MaxCalls)
MaxYield == 1      \* items an async generator yields before it can only end
MaxProtoCalls == 2 \* requests dispatched in one behaviour of Spec

NumConns == 2      \* inbound connections the channel server accepts
NumUids == 2       \* uids of peers
NumWaiters == 1    \* tasks that call wait_for_peer
MaxReplyCalls == 2 \* calls the actor makes with send_cmd
MaxErrFrames == 2  \* frames the responder sends for one call in SpecError
MaxFrames == 3     \* frames the responder sends for one call
QueueSize == 2     \* capacity of a caller's queue (trio.Queue(1000) in the code)
NumAWaiters == 2   \* calls of Arbiter.wait_for_actor
Chans == 1..NumChans
Cids == 1..MaxCalls
RCids == 1..MaxReplyCalls
Conns == 1..NumConns
Uids == 1..NumUids
Waiters == 1..NumWaiters
AWaiters == 1..NumAWaiters
Names == {"w", "v"}
Uuids == {"u1", "u2"}
\* The actors that register; actor i listens on the socket address i.
ActorIds == << <<"w", "u1">>, <<"w", "u2">>, <<"v", "u1">> >>

\* The kinds of callable _invoke tells apart (src/tractor/_actor.py:49-123):
\*   function       neither coroutine function nor async generator function
\*   asyncfunction  coroutine function without a `chan` parameter
\*   asyncgen       async generator function
\*   chanfunc       coroutine function that declares `chan` and `cid`
\*   cancel         the actor's own Actor.cancel (a coroutine function)
FuncKinds == {"function", "asyncfunction", "asyncgen", "chanfunc", "cancel"}

\* What the requested function does when it is run:
\*   ok       returns (or is exhausted) without an exception
\*   badcall  func(**kwargs) itself raises (kwargs do not fit the signature)
\*   raise    the body raises once it runs
Behaviours == {"ok", "badcall", "raise"}

\* The requests the environment sends.
CmdInputs ==
    {<<f, b>> \in (FuncKinds \ {"cancel"}) \X Behaviours :
        b = "badcall" => f \in {"asyncfunction", "asyncgen"}}
CancelKinds == {"function", "asyncgen", "cancel"}

VARIABLES
    \* --- Actor fields
    parent_chan,        \* self._parent_chan is set (the actor has a parent)
    rpc_tasks,          \* self._rpc_tasks: chan -> list of (cs, func), as call ids
    no_more_rpc_tasks,  \* self._no_more_rpc_tasks.is_set()
    server_cancelled,   \* self._server_nursery.cancel_scope cancelled
    root_scope,         \* self._root_nursery: "live", "cancelled" (by cancel()),
                        \*   "crashed" (an exception reached the nursery)
    \* --- one _process_messages task per channel
    lstate,             \* "recv" | "starting" | "closing" | "closed" | "dead"
    lstart,             \* the call id whose nursery.start() the loop awaits
    lexit,              \* why the loop left: "none" | "sentinel" | "eof" |
                        \*   "start_failed" | "lookup_failed" | "cancelled"
    connected,          \* chan.connected()
    \* --- one _invoke task per call id
    tkind, tbehav, tchan,
    tpc,                \* "unborn" | "spawned" | "functype_sent" | "body" | "iter" |
                        \*   "cancel_wait" | "cancel_woken" | "exiting" | "done" | "crashed"
    texit,              \* how the task reached its finally: "none" | "normal" |
                        \*   "cancelled" | "error"
    cs_bound,           \* the local `cs` is bound (a cancel scope was opened)
    cs_cancelled,       \* cs.cancel() was called
    started,            \* task_status.started(cs) was called
    fraised,            \* the requested function raised
    frames,             \* the frames sent with this call id, in order
    nextcid,
    cancel_returned     \* Actor.cancel() has returned
\* SpecPeers
VARIABLES
    peers,              \* self._peers: uid -> list of channels (a defaultdict)
    peer_connected,     \* keys of self._peer_connected (uid -> Event)
    no_more_peers,      \* self._no_more_peers.is_set()
    hstate,             \* _stream_handler per connection
    huid,               \* chan.uid, filled in by the handshake (0: none)
    wstate, wuid, wret  \* wait_for_peer callers
\* SpecReply
VARIABLES
    chanuid,            \* chan.uid of each channel
    rstate,             \* message loop of the channel: "recv" | "disconnected"
    wire,               \* messages sent by the peer and not yet read by the loop
    peer_closed,        \* the peer has closed its end
    actors2calls,       \* self._actors2calls: (uid, cid) -> queue
    callchan,           \* the channel send_cmd used for the call id (0: not sent)
    emitted,            \* frames the responder has emitted for the call id
    readlog             \* messages the caller has taken from its queue

rpcvars == <<parent_chan, rpc_tasks, no_more_rpc_tasks, server_cancelled, root_scope,
             lstate, lstart, lexit, connected, tkind, tbehav, tchan, tpc, texit,
             cs_bound, cs_cancelled, started, fraised, frames, nextcid,
             cancel_returned>>
peervars == <<peers, peer_connected, no_more_peers, hstate, huid, wstate, wuid, wret>>
replyvars == <<chanuid, rstate, wire, peer_closed, actors2calls, callchan, emitted,
               readlog>>

\* --- the message loop on a message with an error and no cid
VARIABLES
    chan_exc,           \* chan._exc is set (the channel is marked as errored)
    loop_exc,           \* exception raised in the message loop of the channel
    bcast,              \* call ids the error broadcast has still to serve
    bsize,              \* size of the peer's dict of queues when the iteration began
    bcids,              \* call ids the broadcast began with
    parent_sent         \* {'error': ...} frames sent on the parent channel

errvars == <<chan_exc, loop_exc, bcast, bsize, bcids, parent_sent>>
\* The variables of the error broadcast, without the count of frames to the parent.
erridle == <<chan_exc, loop_exc, bcast, bsize, bcids>>

\* --- Arbiter
\* A key of the registry or an item of a waiter list is <<"uid", <<name, uuid>>>>
\* or <<"event", w>>, the trio.Event made by the call w of wait_for_actor.
VARIABLES
    registry,           \* self._registry: the (key, value) pairs, in insertion order
    waiters,            \* self._waiters: name -> list of items
    awstate,            \* call of wait_for_actor: "idle" | "waiting" | "woken" |
                        \*   "returned" | "raised"
    awname,             \* the name the call waits for
    awres,              \* the list the call returned
    reg_raised,         \* the last register_actor raised (AttributeError)
    fret                \* what the last find_actor returned, TypeError for a raise

regvars == <<registry, waiters, awstate, awname, awres, reg_raised, fret>>

\* --- Actor._async_main
VARIABLES
    mpc,                \* where _async_main is: "load" | "serve" | "parent" |
                        \*   "register" | "started" | "nursery_exit" | "except" |
                        \*   "unreg" | "peers_check" | "peers_wait" |
                        \*   "cancel_server" | "returned" | "raised"
    parent_addr,        \* parent_addr is not None
    arbiter_up,         \* the arbiter accepts connections
    registered_with_arbiter,
    server_nursery,     \* self._server_nursery is not None
    main_exc,           \* the exception that is propagating in _async_main
    caught,             \* the exception `except Exception` has caught
    unreg_attempted,    \* _do_unreg has asked the arbiter to unregister the actor
    teardown_waited     \* the finally has waited for self._no_more_peers

mainvars == <<mpc, parent_addr, arbiter_up, registered_with_arbiter, server_nursery,
              main_exc, caught, unreg_attempted, teardown_waited>>

\* --- the async generator of an invocation task
VARIABLES
    agen                \* per call id: "none" (no generator is iterated) |
                        \*   "body" (the task waits at an await of the generator's
                        \*   body) | "yield" (the generator is suspended at a yield,
                        \*   the task waits in chan.send) | "closed" (the generator
                        \*   has ended, its finally regions have run)

genvars == <<agen>>

\* --- the callers of send_cmd
VARIABLES
    dropped             \* call ids whose caller has let go of the queue send_cmd
                        \*   returned

dropvars == <<dropped>>
extvars == <<errvars, regvars, mainvars, genvars, dropvars>>
vars == <<rpcvars, peervars, replyvars, extvars>>

\* ------------------------------------------------------------ helpers
Contains(s, x) == \E i \in 1..Len(s) : s[i] = x

\* list.remove(x): drop the first element equal to x
Remove(s, x) ==
    LET i == CHOOSE j \in 1..Len(s) : s[j] = x /\ \A h \in 1..(j - 1) : s[h] # x
    IN  [h \in 1..(Len(s) - 1) |-> IF h < i THEN s[h] ELSE s[h + 1]]

\* dict.pop(key, None)
DictPop(d, key) == [x \in (DOMAIN d) \ {key} |-> d[x]]

\* dict.get(key, ()) for a dict of lists
DictGet(d, key) == IF key \in DOMAIN d THEN d[key] ELSE <<>>

\* dict.setdefault(key, []).append(x)
DictAppend(d, key, x) ==
    [y \in (DOMAIN d) \cup {key} |-> IF y = key THEN Append(DictGet(d, key), x) ELSE d[y]]

TerminalTags == {"return", "stop", "error"}
FunctypeTags == {"functype:function", "functype:asyncfunction", "functype:asyncgen"}

CountTags(s, tags) == Cardinality({i \in 1..Len(s) : s[i] \in tags})

\* ------------------------------------------------- the invocation task
\* The `functype` frame _invoke sends for a callable.
Functype(kind) ==
    CASE kind = "function" -> "functype:function"
      [] kind = "asyncgen" -> "functype:asyncgen"
      [] kind = "chanfunc" -> "functype:asyncgen"
      [] OTHER -> "functype:asyncfunction"

\* func(**kwargs) is evaluated before the functype frame is sent for every
\* callable but a plain function, so a call that does not fit the signature
\* raises there.
RaisesOnCall(k) == tkind[k] # "function" /\ tbehav[k] = "badcall"

\* What `await chan.send(...)` does in the task of call k: the checkpoint at
\* its start raises Cancelled when the root scope is cancelled, the stream
\* raises when the channel was closed, and the frame is written otherwise.
Outcome(k) ==
    IF root_scope # "live" THEN "cancelled"
    ELSE IF ~connected[tchan[k]] THEN "broken"
    ELSE "ok"

\* `await chan.send({tag: ..., 'cid': k})`, after which the task is at nextpc.
\* A send that raises inside the try block lands in `except Exception`, whose
\* own send of the error frame raises the same way: the exception leaves the
\* task through its finally.
Send(k, tag, nextpc) ==
    LET out == Outcome(k) IN
    /\ frames' = IF out = "ok" THEN [frames EXCEPT ![k] = Append(@, tag)] ELSE frames
    /\ tpc' = [tpc EXCEPT ![k] = IF out = "ok" THEN nextpc ELSE "exiting"]
    /\ texit' = [texit EXCEPT ![k] =
                    IF out = "ok" THEN (IF nextpc = "exiting" THEN "normal" ELSE @)
                    ELSE IF out = "cancelled" THEN "cancelled" ELSE "error"]

\* The task leaves without sending: to its finally, by `how`.
Leave(k, how) ==
    /\ frames' = frames
    /\ tpc' = [tpc EXCEPT ![k] = "exiting"]
    /\ texit' = [texit EXCEPT ![k] = how]

\* _invoke up to its first checkpoint.
InvokeBegin(k) ==
    /\ tpc[k] = "spawned"
    /\ fraised' = [fraised EXCEPT ![k] = RaisesOnCall(k)]
    /\ IF RaisesOnCall(k)
         THEN Send(k, "error", "exiting")
         ELSE Send(k, Functype(tkind[k]), "functype_sent")
    /\ UNCHANGED <<parent_chan, rpc_tasks, no_more_rpc_tasks, server_cancelled,
                   root_scope, lstate, lstart, lexit, connected, tkind, tbehav, tchan,
                   cs_bound, cs_cancelled, started, nextcid, cancel_returned>>
    /\ UNCHANGED <<peervars, replyvars, extvars>>

\* A plain function: the scope is opened and published, func(**kwargs) runs
\* and its result (or the error) is sent.
InvokeStartedFunction(k) ==
    /\ tpc[k] = "functype_sent"
    /\ tkind[k] = "function"
    /\ cs_bound' = [cs_bound EXCEPT ![k] = TRUE]
    /\ started' = [started EXCEPT ![k] = TRUE]
    /\ fraised' = [fraised EXCEPT ![k] = tbehav[k] # "ok"]
    /\ Send(k, IF tbehav[k] = "ok" THEN "return" ELSE "error", "exiting")
    /\ UNCHANGED <<parent_chan, rpc_tasks, no_more_rpc_tasks, server_cancelled,
                   root_scope, lstate, lstart, lexit, connected, tkind, tbehav, tchan,
                   cs_cancelled, nextcid, cancel_returned>>
    /\ UNCHANGED <<peervars, replyvars, extvars>>

\* A coroutine or an async generator: the scope is opened and published and
\* the task waits inside the callable's body.
InvokeStartedAsync(k) ==
    /\ tpc[k] = "functype_sent"
    /\ tkind[k] \in {"asyncfunction", "asyncgen", "chanfunc"}
    /\ cs_bound' = [cs_bound EXCEPT ![k] = TRUE]
    /\ started' = [started EXCEPT ![k] = TRUE]
    /\ tpc' = [tpc EXCEPT ![k] = IF tkind[k] = "asyncgen" THEN "iter" ELSE "body"]
    /\ UNCHANGED <<parent_chan, rpc_tasks, no_more_rpc_tasks, server_cancelled,
                   root_scope, lstate, lstart, lexit, connected, tkind, tbehav, tchan,
                   texit, cs_cancelled, fraised, frames, nextcid, cancel_returned>>
    /\ IF tkind[k] = "asyncgen"
         THEN \E at \in {"body", "yield"} : agen' = [agen EXCEPT ![k] = at]
         ELSE UNCHANGED agen
    /\ UNCHANGED <<peervars, replyvars, errvars, regvars, mainvars, dropvars>>

\* `async for item in agen: await chan.send({'yield': item, 'cid': cid})`
GenYield(k) ==
    /\ tpc[k] = "iter"
    /\ ~cs_cancelled[k] /\ root_scope = "live"
    /\ CountTags(frames[k], {"yield"}) < MaxYield
    /\ Send(k, "yield", "iter")
    /\ UNCHANGED <<parent_chan, rpc_tasks, no_more_rpc_tasks, server_cancelled,
                   root_scope, lstate, lstart, lexit, connected, tkind, tbehav, tchan,
                   cs_bound, cs_cancelled, started, fraised, nextcid, cancel_returned>>
    /\ IF Outcome(k) = "ok"
         THEN \E at \in {"body", "yield"} : agen' = [agen EXCEPT ![k] = at]
         ELSE agen' = [agen EXCEPT ![k] = "closed"]
    /\ UNCHANGED <<peervars, replyvars, errvars, regvars, mainvars, dropvars>>

\* mutant: {'stop': None} is sent after the error frame too
GenEnd_StopAfterError(k) ==
    /\ tpc[k] = "iter"
    /\ ~cs_cancelled[k] /\ root_scope = "live"
    /\ connected[tchan[k]]
    /\ fraised' = [fraised EXCEPT ![k] = tbehav[k] = "raise"]
    /\ frames' = [frames EXCEPT ![k] =
                    IF tbehav[k] = "raise" THEN @ \o <<"error", "stop">>
                    ELSE Append(@, "stop")]
    /\ tpc' = [tpc EXCEPT ![k] = "exiting"]
    /\ texit' = [texit EXCEPT ![k] = "normal"]
    /\ UNCHANGED <<parent_chan, rpc_tasks, no_more_rpc_tasks, server_cancelled,
                   root_scope, lstate, lstart, lexit, connected, tkind, tbehav, tchan,
                   cs_bound, cs_cancelled, started, nextcid, cancel_returned>>
    /\ agen' = [agen EXCEPT ![k] = "closed"]
    /\ UNCHANGED <<peervars, replyvars, errvars, regvars, mainvars, dropvars>>

\* The generator is exhausted ({'stop': None}) or raises ({'error': ...}).
GenEnd(k) ==
    /\ tpc[k] = "iter"
    /\ ~cs_cancelled[k] /\ root_scope = "live"
    /\ fraised' = [fraised EXCEPT ![k] = tbehav[k] = "raise"]
    /\ Send(k, IF tbehav[k] = "raise" THEN "error" ELSE "stop", "exiting")
    /\ UNCHANGED <<parent_chan, rpc_tasks, no_more_rpc_tasks, server_cancelled,
                   root_scope, lstate, lstart, lexit, connected, tkind, tbehav, tchan,
                   cs_bound, cs_cancelled, started, nextcid, cancel_returned>>
    /\ agen' = [agen EXCEPT ![k] = "closed"]
    /\ UNCHANGED <<peervars, replyvars, errvars, regvars, mainvars, dropvars>>

\* `await coro` ends: a coroutine's result is sent as {'return': ...}, a
\* `chan`-accepting coroutine's result is dropped, an exception is sent as
\* {'error': ...}.
BodyDone(k) ==
    /\ tpc[k] = "body"
    /\ ~cs_cancelled[k] /\ root_scope = "live"
    /\ fraised' = [fraised EXCEPT ![k] = tbehav[k] = "raise"]
    /\ IF tbehav[k] = "raise" THEN Send(k, "error", "exiting")
       ELSE IF tkind[k] = "asyncfunction" THEN Send(k, "return", "exiting")
       ELSE Leave(k, "normal")
    /\ UNCHANGED <<parent_chan, rpc_tasks, no_more_rpc_tasks, server_cancelled,
                   root_scope, lstate, lstart, lexit, connected, tkind, tbehav, tchan,
                   cs_bound, cs_cancelled, started, nextcid, cancel_returned>>
    /\ UNCHANGED <<peervars, replyvars, extvars>>

\* A `chan`-accepting coroutine publishes a frame itself through the channel
\* and call id it was handed.
ChanFuncPush(k) ==
    /\ tpc[k] = "body"
    /\ tkind[k] = "chanfunc"
    /\ ~cs_cancelled[k] /\ root_scope = "live"
    /\ connected[tchan[k]]
    /\ CountTags(frames[k], {"yield"}) < MaxYield
    /\ frames' = [frames EXCEPT ![k] = Append(@, "yield")]
    /\ UNCHANGED <<parent_chan, rpc_tasks, no_more_rpc_tasks, server_cancelled,
                   root_scope, lstate, lstart, lexit, connected, tkind, tbehav, tchan,
                   tpc, texit, cs_bound, cs_cancelled, started, fraised, nextcid,
                   cancel_returned>>
    /\ UNCHANGED <<peervars, replyvars, extvars>>

\* mutant: the generator is iterated without aclosing; it is only ended by
\* a Cancelled that is raised inside its body
aclosing_Absent(k) ==
    agen' = IF agen[k] = "body" THEN [agen EXCEPT ![k] = "closed"] ELSE agen

\* `async with aclosing(coro) as agen` when an exception leaves the block:
\* a Cancelled raised inside the generator's body has unwound the generator,
\* one raised in chan.send leaves it suspended and __aexit__ closes it with
\* agen.aclose().
aclosing(k) ==
    agen' = IF agen[k] \in {"body", "yield"} THEN [agen EXCEPT ![k] = "closed"] ELSE agen

\* Cancelled is raised at the await the task waits in.  A cancelled root
\* scope unwinds the whole task.  The task's own scope absorbs it at the end
\* of its `with` block: nothing follows the block for a coroutine, and the
\* send of {'stop': None} follows it for an async generator.
BodyCancelled(k) ==
    /\ tpc[k] \in {"body", "iter"}
    /\ cs_cancelled[k] \/ root_scope # "live"
    /\ IF root_scope # "live" THEN Leave(k, "cancelled")
       ELSE IF tkind[k] = "asyncgen" THEN Send(k, "stop", "exiting")
       ELSE Leave(k, "cancelled")
    /\ UNCHANGED <<parent_chan, rpc_tasks, no_more_rpc_tasks, server_cancelled,
                   root_scope, lstate, lstart, lexit, connected, tkind, tbehav, tchan,
                   cs_bound, cs_cancelled, started, fraised, nextcid, cancel_returned>>
    /\ aclosing(k)
    /\ UNCHANGED <<peervars, replyvars, errvars, regvars, mainvars, dropvars>>

\* ---------------------------------------------------- Actor.cancel()
\* Actor.cancel_rpc_tasks: scope.cancel() for every entry of every channel.
cancel_rpc_tasks ==
    cs_cancelled' = [j \in Cids |->
        cs_cancelled[j] \/ \E c \in DOMAIN rpc_tasks : Contains(rpc_tasks[c], j)]

\* mutant: the server scope is left alone
cancel_server_Skipped == UNCHANGED server_cancelled

\* Actor.cancel_server
cancel_server == server_cancelled' = TRUE

\* Actor.cancel after cancel_rpc_tasks has returned: the server scope, then
\* the root scope.  Back in _invoke the send of {'return': None} starts with a
\* checkpoint, which raises Cancelled in the scope just cancelled.
CancelFinish(k) ==
    /\ cancel_server
    /\ root_scope' = IF root_scope = "live" THEN "cancelled" ELSE root_scope
    /\ cancel_returned' = TRUE
    /\ Leave(k, "cancelled")

\* The invocation of Actor.cancel: the scope is opened and published, then
\* cancel() runs: cancel_rpc_tasks cancels every registered scope and waits
\* for no_more_rpc_tasks when rpc_tasks is not empty.  (The loop variable of
\* cancel_rpc_tasks rebinds `scopes`: `if scopes:` tests the list of the last
\* channel, or the empty dict.  No list kept in rpc_tasks is empty, so the
\* test is that of the dict.)
InvokeStartedCancel(k) ==
    /\ tpc[k] = "functype_sent"
    /\ tkind[k] = "cancel"
    /\ cs_bound' = [cs_bound EXCEPT ![k] = TRUE]
    /\ started' = [started EXCEPT ![k] = TRUE]
    /\ cancel_rpc_tasks
    /\ IF DOMAIN rpc_tasks = {}
         THEN CancelFinish(k)
         ELSE /\ IF root_scope # "live" THEN Leave(k, "cancelled")
                 ELSE /\ tpc' = [tpc EXCEPT ![k] = IF no_more_rpc_tasks
                                                     THEN "cancel_woken"
                                                     ELSE "cancel_wait"]
                      /\ UNCHANGED <<frames, texit>>
              /\ UNCHANGED <<server_cancelled, root_scope, cancel_returned>>
    /\ UNCHANGED <<parent_chan, rpc_tasks, no_more_rpc_tasks, lstate, lstart, lexit,
                   connected, tkind, tbehav, tchan, fraised, nextcid>>
    /\ UNCHANGED <<peervars, replyvars, extvars>>

\* no_more_rpc_tasks was set while cancel_rpc_tasks waited for it.
CancelResume(k) ==
    /\ tpc[k] = "cancel_woken"
    /\ CancelFinish(k)
    /\ UNCHANGED <<parent_chan, rpc_tasks, no_more_rpc_tasks, lstate, lstart, lexit,
                   connected, tkind, tbehav, tchan, cs_bound, cs_cancelled, started,
                   fraised, nextcid>>
    /\ UNCHANGED <<peervars, replyvars, extvars>>

\* The root scope is cancelled while cancel_rpc_tasks waits.
CancelInterrupted(k) ==
    /\ tpc[k] = "cancel_wait"
    /\ root_scope # "live"
    /\ Leave(k, "cancelled")
    /\ UNCHANGED <<parent_chan, rpc_tasks, no_more_rpc_tasks, server_cancelled,
                   root_scope, lstate, lstart, lexit, connected, tkind, tbehav, tchan,
                   cs_bound, cs_cancelled, started, fraised, nextcid, cancel_returned>>
    /\ UNCHANGED <<peervars, replyvars, extvars>>

\* ------------------------------------------------ _invoke's finally
\* "RPC task bookeeping": the new rpc_tasks, whether no_more_rpc_tasks.set()
\* is reached, and whether the block raises instead: tasks.remove((cs, func))
\* raises when `cs` was never bound or the entry is not in the list, and the
\* rest of the block is then skipped.
InvokeFinallyResult(k) ==
    LET c == tchan[k]
        tasks == DictGet(rpc_tasks, c)
    IN  IF tasks # <<>> /\ (~cs_bound[k] \/ ~Contains(tasks, k))
          THEN [rt |-> rpc_tasks, setev |-> FALSE, raised |-> TRUE]
          ELSE LET left == IF tasks # <<>> THEN Remove(tasks, k) ELSE tasks
                   rt == IF left = <<>> THEN DictPop(rpc_tasks, c)
                         ELSE [rpc_tasks EXCEPT ![c] = left]
               IN  [rt |-> rt, setev |-> DOMAIN rt = {}, raised |-> FALSE]

\* The task runs its finally and ends.  Event.set() wakes every waiter.  An
\* exception that leaves a task which had called started() reaches the root
\* nursery, which cancels its scope.
InvokeFinally(k) ==
    /\ tpc[k] = "exiting"
    /\ LET res == InvokeFinallyResult(k)
           exc == res.raised \/ texit[k] = "error"
       IN  /\ rpc_tasks' = res.rt
           /\ no_more_rpc_tasks' = (no_more_rpc_tasks \/ res.setev)
           /\ tpc' = [j \in Cids |->
                        IF j = k THEN (IF exc THEN "crashed" ELSE "done")
                        ELSE IF res.setev /\ tpc[j] = "cancel_wait" THEN "cancel_woken"
                        ELSE tpc[j]]
           /\ root_scope' = IF exc /\ started[k] /\ root_scope = "live"
                              THEN "crashed" ELSE root_scope
    /\ UNCHANGED <<parent_chan, server_cancelled, lstate, lstart, lexit, connected,
                   tkind, tbehav, tchan, texit, cs_bound, cs_cancelled, started,
                   fraised, frames, nextcid, cancel_returned>>
    /\ UNCHANGED <<peervars, replyvars, extvars>>

\* ------------------------------------- _process_messages, per channel
\* A {'cmd': ...} message: the function is resolved and the loop awaits
\* self._root_nursery.start(_invoke, ...).
LoopRecvCmd(c, f, b) ==
    /\ lstate[c] = "recv"
    /\ root_scope = "live"
    /\ nextcid <= MaxCalls
    /\ tkind' = [tkind EXCEPT ![nextcid] = f]
    /\ tbehav' = [tbehav EXCEPT ![nextcid] = b]
    /\ tchan' = [tchan EXCEPT ![nextcid] = c]
    /\ tpc' = [tpc EXCEPT ![nextcid] = "spawned"]
    /\ lstate' = [lstate EXCEPT ![c] = "starting"]
    /\ lstart' = [lstart EXCEPT ![c] = nextcid]
    /\ nextcid' = nextcid + 1
    /\ UNCHANGED <<parent_chan, rpc_tasks, no_more_rpc_tasks, server_cancelled,
                   root_scope, lexit, connected, texit, cs_bound, cs_cancelled,
                   started, fraised, frames, cancel_returned>>
    /\ UNCHANGED <<peervars, replyvars, extvars>>

\* start() returned the task's scope: unless the function is Actor.cancel the
\* event is cleared and (cs, func) is appended to the channel's list.
LoopStarted(c) ==
    /\ lstate[c] = "starting"
    /\ started[lstart[c]]
    /\ IF tkind[lstart[c]] # "cancel"
         THEN /\ no_more_rpc_tasks' = FALSE
              /\ rpc_tasks' = DictAppend(rpc_tasks, c, lstart[c])
         ELSE UNCHANGED <<no_more_rpc_tasks, rpc_tasks>>
    /\ lstate' = [lstate EXCEPT ![c] = "recv"]
    /\ UNCHANGED <<parent_chan, server_cancelled, root_scope, lstart, lexit, connected,
                   tkind, tbehav, tchan, tpc, texit, cs_bound, cs_cancelled, started,
                   fraised, frames, nextcid, cancel_returned>>
    /\ UNCHANGED <<peervars, replyvars, extvars>>

\* `except Exception` of _process_messages in the loop of channel c: with a
\* parent channel the traceback is sent to the parent and the exception is
\* raised again (it leaves the connection handler in LoopClose); without one
\* the loop just ends.
LoopExcept(c, why) ==
    /\ lstate' = [lstate EXCEPT ![c] = "closing"]
    /\ lexit' = [lexit EXCEPT ![c] = why]
    /\ parent_sent' = IF parent_chan THEN parent_sent + 1 ELSE parent_sent

\* mutant: the lookup failure is answered with an error frame for the call id
LoopRecvBadCmd_ErrorFrame(c) ==
    /\ lstate[c] = "recv"
    /\ root_scope = "live"
    /\ nextcid <= MaxCalls
    /\ tkind' = [tkind EXCEPT ![nextcid] = "unresolved"]
    /\ tchan' = [tchan EXCEPT ![nextcid] = c]
    /\ frames' = [frames EXCEPT ![nextcid] = <<"error">>]
    /\ nextcid' = nextcid + 1
    /\ LoopExcept(c, "lookup_failed")
    /\ UNCHANGED <<parent_chan, rpc_tasks, no_more_rpc_tasks, server_cancelled,
                   root_scope, lstart, connected, tbehav, tpc, texit, cs_bound,
                   cs_cancelled, started, fraised, cancel_returned>>
    /\ UNCHANGED <<peervars, replyvars, erridle, regvars, mainvars, genvars, dropvars>>

\* A {'cmd': ...} message whose namespace is not in self._mods (KeyError) or
\* whose function the namespace does not have (AttributeError): the lookup
\* raises before anything is started.
LoopRecvBadCmd(c) ==
    /\ lstate[c] = "recv"
    /\ root_scope = "live"
    /\ nextcid <= MaxCalls
    /\ tkind' = [tkind EXCEPT ![nextcid] = "unresolved"]
    /\ tchan' = [tchan EXCEPT ![nextcid] = c]
    /\ nextcid' = nextcid + 1
    /\ LoopExcept(c, "lookup_failed")
    /\ UNCHANGED <<parent_chan, rpc_tasks, no_more_rpc_tasks, server_cancelled,
                   root_scope, lstart, connected, tbehav, tpc, texit, cs_bound,
                   cs_cancelled, started, fraised, frames, cancel_returned>>
    /\ UNCHANGED <<peervars, replyvars, erridle, regvars, mainvars, genvars, dropvars>>

\* The task ended without calling started(): start() raises in the loop, which
\* leaves through `except Exception` and the connection handler's finally
\* (`await chan.send(None)`).
LoopStartFailed(c) ==
    /\ lstate[c] = "starting"
    /\ root_scope = "live"
    /\ ~started[lstart[c]]
    /\ tpc[lstart[c]] \in {"done", "crashed"}
    /\ LoopExcept(c, "start_failed")
    /\ UNCHANGED <<parent_chan, rpc_tasks, no_more_rpc_tasks, server_cancelled,
                   root_scope, lstart, connected, tkind, tbehav, tchan, tpc, texit,
                   cs_bound, cs_cancelled, started, fraised, frames, nextcid,
                   cancel_returned>>
    /\ UNCHANGED <<peervars, replyvars, erridle, regvars, mainvars, genvars, dropvars>>

\* mutant: the sentinel cancels the scopes of every channel
LoopRecvSentinel_CancelAll(c) ==
    /\ lstate[c] = "recv"
    /\ root_scope = "live"
    /\ cancel_rpc_tasks
    /\ rpc_tasks' = DictPop(rpc_tasks, c)
    /\ lstate' = [lstate EXCEPT ![c] = "closing"]
    /\ lexit' = [lexit EXCEPT ![c] = "sentinel"]
    /\ UNCHANGED <<parent_chan, no_more_rpc_tasks, server_cancelled, root_scope, lstart,
                   connected, tkind, tbehav, tchan, tpc, texit, cs_bound, started,
                   fraised, frames, nextcid, cancel_returned>>
    /\ UNCHANGED <<peervars, replyvars, extvars>>

\* The terminate sentinel: the channel's list is popped, every scope in it is
\* cancelled, and the loop breaks into the connection handler's finally.
LoopRecvSentinel(c) ==
    /\ lstate[c] = "recv"
    /\ root_scope = "live"
    /\ cs_cancelled' = [j \in Cids |->
                          cs_cancelled[j] \/ Contains(DictGet(rpc_tasks, c), j)]
    /\ rpc_tasks' = DictPop(rpc_tasks, c)
    /\ lstate' = [lstate EXCEPT ![c] = "closing"]
    /\ lexit' = [lexit EXCEPT ![c] = "sentinel"]
    /\ UNCHANGED <<parent_chan, no_more_rpc_tasks, server_cancelled, root_scope, lstart,
                   connected, tkind, tbehav, tchan, tpc, texit, cs_bound, started,
                   fraised, frames, nextcid, cancel_returned>>
    /\ UNCHANGED <<peervars, replyvars, extvars>>

\* The peer closed: the `async for` ends.
LoopEOF(c) ==
    /\ lstate[c] = "recv"
    /\ root_scope = "live"
    /\ lstate' = [lstate EXCEPT ![c] = "closing"]
    /\ lexit' = [lexit EXCEPT ![c] = "eof"]
    /\ UNCHANGED <<parent_chan, rpc_tasks, no_more_rpc_tasks, server_cancelled,
                   root_scope, lstart, connected, tkind, tbehav, tchan, tpc, texit,
                   cs_bound, cs_cancelled, started, fraised, frames, nextcid,
                   cancel_returned>>
    /\ UNCHANGED <<peervars, replyvars, extvars>>

\* The connection handler's finally closes the channel (chan.aclose()).  An
\* exception the loop re-raised (it does when the actor has a parent) then
\* leaves the handler and reaches the root nursery.
LoopClose(c) ==
    /\ lstate[c] = "closing"
    /\ connected' = [connected EXCEPT ![c] = FALSE]
    /\ lstate' = [lstate EXCEPT ![c] = "closed"]
    /\ root_scope' = IF lexit[c] \in {"start_failed", "lookup_failed"}
                          /\ parent_chan /\ root_scope = "live"
                       THEN "crashed" ELSE root_scope
    /\ UNCHANGED <<parent_chan, rpc_tasks, no_more_rpc_tasks, server_cancelled, lstart,
                   lexit, tkind, tbehav, tchan, tpc, texit, cs_bound, cs_cancelled,
                   started, fraised, frames, nextcid, cancel_returned>>
    /\ UNCHANGED <<peervars, replyvars, extvars>>

\* The root scope is cancelled: Cancelled is raised in the loop where it waits.
LoopCancelled(c) ==
    /\ root_scope # "live"
    /\ lstate[c] = "recv" \/ (lstate[c] = "starting" /\ ~started[lstart[c]])
    /\ lstate' = [lstate EXCEPT ![c] = "dead"]
    /\ lexit' = [lexit EXCEPT ![c] = "cancelled"]
    /\ UNCHANGED <<parent_chan, rpc_tasks, no_more_rpc_tasks, server_cancelled,
                   root_scope, lstart, connected, tkind, tbehav, tchan, tpc, texit,
                   cs_bound, cs_cancelled, started, fraised, frames, nextcid,
                   cancel_returned>>
    /\ UNCHANGED <<peervars, replyvars, extvars>>

\* ------------------------------------------ _stream_handler and peers
\* defaultdict.__getitem__: a lookup of a missing key stores an empty list
DefaultDictTouch(d, key) ==
    [y \in (DOMAIN d) \cup {key} |-> DictGet(d, y)]

\* _stream_handler up to the handshake: a new inbound connection.
Accept(c) ==
    /\ hstate[c] = "idle"
    /\ no_more_peers' = FALSE
    /\ hstate' = [hstate EXCEPT ![c] = "handshake"]
    /\ UNCHANGED <<peers, peer_connected, huid, wstate, wuid, wret>>
    /\ UNCHANGED <<rpcvars, replyvars, extvars>>

\* _do_handshake raises StopAsyncIteration: the handler returns.
HandshakeFail(c) ==
    /\ hstate[c] = "handshake"
    /\ hstate' = [hstate EXCEPT ![c] = "failed"]
    /\ UNCHANGED <<peers, peer_connected, no_more_peers, huid, wstate, wuid, wret>>
    /\ UNCHANGED <<rpcvars, replyvars, extvars>>

\* The handshake gives the peer's uid: waiters are woken, the channel is
\* appended to peers[uid] and the message loop is entered.
HandshakeOk(c, u) ==
    /\ hstate[c] = "handshake"
    /\ peer_connected' = peer_connected \ {u}
    /\ wstate' = [w \in Waiters |->
                    IF u \in peer_connected /\ wstate[w] = "waiting" /\ wuid[w] = u
                    THEN "woken" ELSE wstate[w]]
    /\ peers' = DictAppend(peers, u, c)
    /\ huid' = [huid EXCEPT ![c] = u]
    /\ hstate' = [hstate EXCEPT ![c] = "loop"]
    /\ UNCHANGED <<no_more_peers, wuid, wret>>
    /\ UNCHANGED <<rpcvars, replyvars, extvars>>

\* _process_messages has ended: the finally of _stream_handler.
HandlerFinally(c) ==
    /\ hstate[c] = "loop"
    /\ LET chans == Remove(peers[huid[c]], c)
           p == IF chans = <<>> THEN DictPop(peers, huid[c])
                ELSE [peers EXCEPT ![huid[c]] = chans]
       IN  /\ peers' = p
           /\ no_more_peers' = IF DOMAIN p = {} THEN TRUE ELSE no_more_peers
    /\ hstate' = [hstate EXCEPT ![c] = "closed"]
    /\ UNCHANGED <<peer_connected, huid, wstate, wuid, wret>>
    /\ UNCHANGED <<rpcvars, replyvars, extvars>>

\* Actor.get_chans
get_chans(u) ==
    /\ peers' = DefaultDictTouch(peers, u)
    /\ UNCHANGED <<peer_connected, no_more_peers, hstate, huid, wstate, wuid, wret>>
    /\ UNCHANGED <<rpcvars, replyvars, extvars>>

\* Actor.wait_for_peer up to `await event.wait()`
wait_for_peer(w, u) ==
    /\ wstate[w] = "idle"
    /\ peer_connected' = peer_connected \cup {u}
    /\ wstate' = [wstate EXCEPT ![w] = "waiting"]
    /\ wuid' = [wuid EXCEPT ![w] = u]
    /\ UNCHANGED <<peers, no_more_peers, hstate, huid, wret>>
    /\ UNCHANGED <<rpcvars, replyvars, extvars>>

\* Actor.wait_for_peer after the event: `return event, self._peers[uid][-1]`,
\* an IndexError when the channel is gone again.
WaitReturn(w) ==
    /\ wstate[w] = "woken"
    /\ LET chans == DictGet(peers, wuid[w])
       IN  /\ peers' = DefaultDictTouch(peers, wuid[w])
           /\ IF chans # <<>>
                THEN /\ wret' = [wret EXCEPT ![w] = chans[Len(chans)]]
                     /\ wstate' = [wstate EXCEPT ![w] = "returned"]
                ELSE /\ wstate' = [wstate EXCEPT ![w] = "raised"]
                     /\ UNCHANGED wret
    /\ UNCHANGED <<peer_connected, no_more_peers, hstate, huid, wuid>>
    /\ UNCHANGED <<rpcvars, replyvars, extvars>>

\* ------------------------------------------ replies to the originator
\* Actor.get_waitq: the table with the queue of (actorid, cid) in it
get_waitq(a2c, actorid, cid) == DefaultDictTouch(a2c, <<actorid, cid>>)

\* mutant: the message is put at the head of the queue
push_result_AtHead(a2c, actorid, cid, msg) ==
    LET t == get_waitq(a2c, actorid, cid)
    IN  [t EXCEPT ![<<actorid, cid>>] = <<msg>> \o @]

\* Actor._push_result: `await q.put(msg)` on the queue of (actorid, cid)
push_result(a2c, actorid, cid, msg) ==
    LET t == get_waitq(a2c, actorid, cid)
    IN  [t EXCEPT ![<<actorid, cid>>] = Append(@, msg)]

\* Actor.send_cmd: a fresh call id, its queue, the cmd frame to the peer.
send_cmd(c) ==
    /\ rstate[c] \in {"recv", "broadcast"}
    /\ \E k \in RCids :
          /\ callchan[k] = 0
          /\ \A j \in RCids : j < k => callchan[j] # 0
          /\ actors2calls' = get_waitq(actors2calls, chanuid[c], k)
          /\ callchan' = [callchan EXCEPT ![k] = c]
    /\ UNCHANGED <<chanuid, rstate, wire, peer_closed, emitted, readlog>>
    /\ UNCHANGED <<rpcvars, peervars, extvars>>

\* The responder at the far end sends the next frame of call k.
PeerReply(k, tag) ==
    /\ callchan[k] # 0
    /\ ~peer_closed[callchan[k]]
    /\ Len(emitted[k]) < MaxFrames
    /\ CountTags([i \in 1..Len(emitted[k]) |-> emitted[k][i].tag], TerminalTags) = 0
    /\ LET msg == [cid |-> k, n |-> Len(emitted[k]) + 1, tag |-> tag]
       IN  /\ wire' = [wire EXCEPT ![callchan[k]] = Append(@, msg)]
           /\ emitted' = [emitted EXCEPT ![k] = Append(@, msg)]
    /\ UNCHANGED <<chanuid, rstate, peer_closed, actors2calls, callchan, readlog>>
    /\ UNCHANGED <<rpcvars, peervars, extvars>>

\* The far end closes the channel.
PeerClose(c) ==
    /\ ~peer_closed[c]
    /\ peer_closed' = [peer_closed EXCEPT ![c] = TRUE]
    /\ UNCHANGED <<chanuid, rstate, wire, actors2calls, callchan, emitted, readlog>>
    /\ UNCHANGED <<rpcvars, peervars, extvars>>

\* mutant: a reply for a full queue is dropped and the loop goes on
ReplyRecv_DropWhenFull(c) ==
    /\ rstate[c] = "recv"
    /\ wire[c] # <<>>
    /\ LET msg == Head(wire[c])
       IN  actors2calls' =
               IF Len(DictGet(actors2calls, <<chanuid[c], msg.cid>>)) < QueueSize
               THEN push_result(actors2calls, chanuid[c], msg.cid, msg)
               ELSE actors2calls
    /\ wire' = [wire EXCEPT ![c] = Tail(@)]
    /\ UNCHANGED <<chanuid, rstate, peer_closed, callchan, emitted, readlog>>
    /\ UNCHANGED <<rpcvars, peervars, extvars>>

\* _process_messages receives a frame with a cid: the reply is put in the
\* caller's queue; the loop waits in put() while the queue is full.
ReplyRecv(c) ==
    /\ rstate[c] = "recv"
    /\ wire[c] # <<>>
    /\ LET msg == Head(wire[c])
       IN  /\ msg.cid # 0
           /\ Len(DictGet(actors2calls, <<chanuid[c], msg.cid>>)) < QueueSize
           /\ actors2calls' = push_result(actors2calls, chanuid[c], msg.cid, msg)
    /\ wire' = [wire EXCEPT ![c] = Tail(@)]
    /\ UNCHANGED <<chanuid, rstate, peer_closed, callchan, emitted, readlog>>
    /\ UNCHANGED <<rpcvars, peervars, extvars>>

\* `async for msg in chan` ends: the else branch logs the disconnect.
ReplyDisconnect(c) ==
    /\ rstate[c] = "recv"
    /\ wire[c] = <<>>
    /\ peer_closed[c]
    /\ rstate' = [rstate EXCEPT ![c] = "disconnected"]
    /\ UNCHANGED <<chanuid, wire, peer_closed, actors2calls, callchan, emitted, readlog>>
    /\ UNCHANGED <<rpcvars, peervars, extvars>>

\* The channel breaks: trio.ClosedResourceError is logged.
ReplyBroke(c) ==
    /\ rstate[c] = "recv"
    /\ rstate' = [rstate EXCEPT ![c] = "broke"]
    /\ UNCHANGED <<chanuid, wire, peer_closed, actors2calls, callchan, emitted, readlog>>
    /\ UNCHANGED <<rpcvars, peervars, extvars>>

\* The caller takes the next message of call k from its queue.
CallerGet(k) ==
    /\ callchan[k] # 0
    /\ k \notin dropped
    /\ LET key == <<chanuid[callchan[k]], k>>
       IN  /\ key \in DOMAIN actors2calls
           /\ actors2calls[key] # <<>>
           /\ readlog' = [readlog EXCEPT ![k] = Append(@, Head(actors2calls[key]))]
           /\ actors2calls' = [actors2calls EXCEPT ![key] = Tail(@)]
    /\ UNCHANGED <<chanuid, rstate, wire, peer_closed, callchan, emitted>>
    /\ UNCHANGED <<rpcvars, peervars, extvars>>

\* The caller lets go of the queue of call k and reads it no more.  Nothing
\* takes the queue out of self._actors2calls.
CallerDrop(k) ==
    /\ callchan[k] # 0
    /\ k \notin dropped
    /\ dropped' = dropped \cup {k}
    /\ UNCHANGED <<rpcvars, peervars, replyvars, errvars, regvars, mainvars, genvars>>

\* --------------------------------- a message with an error and no cid
\* The far end sends {'error': ...} without a cid.
PeerError(c) ==
    /\ ~peer_closed[c]
    /\ \A i \in 1..Len(wire[c]) : wire[c][i].cid # 0
    /\ wire' = [wire EXCEPT ![c] = Append(@, [cid |-> 0, n |-> 0, tag |-> "error"])]
    /\ UNCHANGED <<chanuid, rstate, peer_closed, actors2calls, callchan, emitted, readlog>>
    /\ UNCHANGED <<rpcvars, peervars, extvars>>

\* The call ids of the queues kept for a peer: self._actors2calls[uid].
CidsOf(a2c, uid) == {k \in RCids : <<uid, k>> \in DOMAIN a2c}

\* The call ids of a set in the order of a dict's iteration (of insertion).
RECURSIVE InOrder(_)
InOrder(S) ==
    IF S = {} THEN <<>>
    ELSE LET k == CHOOSE x \in S : \A y \in S : x <= y
         IN  <<k>> \o InOrder(S \ {k})

\* mutant: the exception leaves the message loop whether or not there is a
\* parent channel
LoopRaise_Always(c, exc) ==
    /\ loop_exc' = [loop_exc EXCEPT ![c] = exc]
    /\ rstate' = [rstate EXCEPT ![c] = "raised"]
    /\ parent_sent' = IF parent_chan THEN parent_sent + 1 ELSE parent_sent
    /\ root_scope' = IF root_scope = "live" THEN "crashed" ELSE root_scope

\* `except Exception` of _process_messages: with a parent channel the
\* exception is sent to the parent and raised again, into the nursery the
\* loop runs in; without one it is logged and the loop ends.
LoopRaise(c, exc) ==
    /\ loop_exc' = [loop_exc EXCEPT ![c] = exc]
    /\ IF parent_chan
         THEN /\ parent_sent' = parent_sent + 1
              /\ rstate' = [rstate EXCEPT ![c] = "raised"]
              /\ root_scope' = IF root_scope = "live" THEN "crashed" ELSE root_scope
         ELSE /\ rstate' = [rstate EXCEPT ![c] = "ended"]
              /\ UNCHANGED <<parent_sent, root_scope>>

\* _process_messages receives a message without cid and without cmd: the
\* channel is marked and the iteration over the peer's queues begins; the
\* lookup raises KeyError when no queue was ever made for the peer.
ReplyRecvError(c) ==
    /\ rstate[c] = "recv"
    /\ wire[c] # <<>>
    /\ Head(wire[c]).cid = 0
    /\ wire' = [wire EXCEPT ![c] = Tail(@)]
    /\ chan_exc' = [chan_exc EXCEPT ![c] = TRUE]
    /\ LET cids == CidsOf(actors2calls, chanuid[c])
       IN  IF cids = {}
           THEN /\ LoopRaise(c, "KeyError")
                /\ UNCHANGED <<bcast, bsize, bcids>>
           ELSE /\ rstate' = [rstate EXCEPT ![c] = "broadcast"]
                /\ bcast' = [bcast EXCEPT ![c] = InOrder(cids)]
                /\ bsize' = [bsize EXCEPT ![c] = Cardinality(cids)]
                /\ bcids' = [bcids EXCEPT ![c] = cids]
                /\ UNCHANGED <<loop_exc, parent_sent, root_scope>>
    /\ UNCHANGED <<chanuid, peer_closed, actors2calls, callchan, emitted, readlog>>
    /\ UNCHANGED <<parent_chan, rpc_tasks, no_more_rpc_tasks, server_cancelled,
                   lstate, lstart, lexit, connected, tkind, tbehav, tchan, tpc, texit,
                   cs_bound, cs_cancelled, started, fraised, frames, nextcid,
                   cancel_returned>>
    /\ UNCHANGED <<peervars, regvars, mainvars, genvars, dropvars>>

\* One step of `for cid in self._actors2calls[chan.uid]`: RuntimeError when
\* the dict has changed size, InternalActorError after the last queue, else
\* the message is put in the next queue (the loop waits while it is full).
BroadcastStep(c) ==
    /\ rstate[c] = "broadcast"
    /\ IF Cardinality(CidsOf(actors2calls, chanuid[c])) # bsize[c]
         THEN /\ LoopRaise(c, "RuntimeError")
              /\ UNCHANGED <<actors2calls, bcast>>
         ELSE IF bcast[c] = <<>>
         THEN /\ LoopRaise(c, "InternalActorError")
              /\ UNCHANGED <<actors2calls, bcast>>
         ELSE /\ Len(DictGet(actors2calls, <<chanuid[c], Head(bcast[c])>>)) < QueueSize
              /\ actors2calls' = push_result(actors2calls, chanuid[c], Head(bcast[c]),
                                             [cid |-> 0, n |-> 0, tag |-> "error"])
              /\ bcast' = [bcast EXCEPT ![c] = Tail(@)]
              /\ UNCHANGED <<loop_exc, rstate, parent_sent, root_scope>>
    /\ UNCHANGED <<chan_exc, bsize, bcids>>
    /\ UNCHANGED <<chanuid, wire, peer_closed, callchan, emitted, readlog>>
    /\ UNCHANGED <<parent_chan, rpc_tasks, no_more_rpc_tasks, server_cancelled,
                   lstate, lstart, lexit, connected, tkind, tbehav, tchan, tpc, texit,
                   cs_bound, cs_cancelled, started, fraised, frames, nextcid,
                   cancel_returned>>
    /\ UNCHANGED <<peervars, regvars, mainvars, genvars, dropvars>>

\* ------------------------------------------------------------ Arbiter
\* The value a defaultdict(list) stores on a lookup of a missing key.
EmptyList == <<"[]">>
\* Python's None, and the TypeError a call ends with.
NoneValue == <<"None">>
TypeError == <<"TypeError">>
\* The socket address (host, port) of the actor i of ActorIds.
SockAddr(i) == <<"host", i>>

RegKeys(reg) == {reg[i][1] : i \in 1..Len(reg)}
RegIndex(reg, key) == CHOOSE i \in 1..Len(reg) : reg[i][1] = key
RegGet(reg, key) == reg[RegIndex(reg, key)][2]

\* dict[key] = val: an existing key keeps its place
RegSet(reg, key, val) ==
    IF key \in RegKeys(reg)
    THEN [reg EXCEPT ![RegIndex(reg, key)] = <<key, val>>]
    ELSE Append(reg, <<key, val>>)

\* dict.pop(key, None)
RegPop(reg, key) == SelectSeq(reg, LAMBDA e : e[1] # key)

\* defaultdict.__getitem__ for each key of a list in turn: the dict after it
RECURSIVE RegTouchAll(_, _)
RegTouchAll(reg, keys) ==
    IF keys = <<>> THEN reg
    ELSE RegTouchAll(IF Head(keys) \in RegKeys(reg) THEN reg
                     ELSE Append(reg, <<Head(keys), EmptyList>>),
                     Tail(keys))

\* `name in uid` of find_actor: uid is the tuple (name, uuid)
NameInUid(arg, key) == arg = key[2][1] \/ arg = key[2][2]

\* Index of the first entry find_actor stops at: a match, or a key that is
\* no tuple (`name in uid` raises TypeError); 0 when there is none.
FindStop(reg, arg) ==
    LET hits == {i \in 1..Len(reg) : reg[i][1][1] = "event" \/ NameInUid(arg, reg[i][1])}
    IN  IF hits = {} THEN 0 ELSE CHOOSE i \in hits : \A j \in hits : i <= j

\* Arbiter.find_actor: what the call returns
FindResult(reg, arg) ==
    LET i == FindStop(reg, arg)
    IN  IF i = 0 THEN NoneValue
        ELSE IF reg[i][1][1] = "event" THEN TypeError
        ELSE reg[i][2]

find_actor(arg) ==
    /\ fret' = FindResult(registry, arg)
    /\ UNCHANGED <<registry, waiters, awstate, awname, awres, reg_raised>>
    /\ UNCHANGED <<rpcvars, peervars, replyvars, errvars, mainvars, genvars, dropvars>>

\* The items of a list before its first uid: `for event in events:
\* event.set()` raises AttributeError at a uid.
RECURSIVE EventsBeforeUid(_)
EventsBeforeUid(items) ==
    IF items = <<>> \/ Head(items)[1] = "uid" THEN {}
    ELSE {Head(items)[2]} \cup EventsBeforeUid(Tail(items))

HasUidItem(items) == \E i \in 1..Len(items) : items[i][1] = "uid"

\* Arbiter.register_actor
register_actor(uid, sockaddr) ==
    LET name == uid[1]
        events == DictGet(waiters, name)
    IN  /\ registry' = RegSet(registry, <<"uid", uid>>, sockaddr)
        /\ waiters' = [n \in (DOMAIN waiters) \cup {name} |->
                          IF n = name THEN << <<"uid", uid>> >> ELSE waiters[n]]
        /\ awstate' = [w \in AWaiters |->
                          IF w \in EventsBeforeUid(events) /\ awstate[w] = "waiting"
                          THEN "woken" ELSE awstate[w]]
        /\ reg_raised' = HasUidItem(events)
        /\ UNCHANGED <<awname, awres, fret>>
        /\ UNCHANGED <<rpcvars, peervars, replyvars, errvars, mainvars, genvars, dropvars>>

\* Arbiter.unregister_actor
unregister_actor(uid) ==
    /\ registry' = RegPop(registry, <<"uid", uid>>)
    /\ UNCHANGED <<waiters, awstate, awname, awres, reg_raised, fret>>
    /\ UNCHANGED <<rpcvars, peervars, replyvars, errvars, mainvars, genvars, dropvars>>

\* The addresses registered under a name, in the registry's order.
AddrsOf(reg, name) ==
    LET m == SelectSeq(reg, LAMBDA e : e[1][1] = "uid" /\ e[1][2][1] = name)
    IN  [i \in 1..Len(m) |-> m[i][2]]

\* Arbiter.wait_for_actor up to `await waiter.wait()`: the unpacking of a
\* key that is no tuple raises TypeError.
wait_for_actor(w, name) ==
    /\ awstate[w] = "idle"
    /\ awname' = [awname EXCEPT ![w] = name]
    /\ IF \E i \in 1..Len(registry) : registry[i][1][1] = "event"
         THEN /\ awstate' = [awstate EXCEPT ![w] = "raised"]
              /\ UNCHANGED <<waiters, awres>>
         ELSE IF AddrsOf(registry, name) # <<>>
         THEN /\ awstate' = [awstate EXCEPT ![w] = "returned"]
              /\ awres' = [awres EXCEPT ![w] = AddrsOf(registry, name)]
              /\ UNCHANGED waiters
         ELSE /\ awstate' = [awstate EXCEPT ![w] = "waiting"]
              /\ waiters' = DictAppend(waiters, name, <<"event", w>>)
              /\ UNCHANGED awres
    /\ UNCHANGED <<registry, reg_raised, fret>>
    /\ UNCHANGED <<rpcvars, peervars, replyvars, errvars, mainvars, genvars, dropvars>>

\* Arbiter.wait_for_actor after the event: `for uid in self._waiters[name]:
\* sockaddrs.append(self._registry[uid])`, on a defaultdict.
WaitForActorReturn(w) ==
    /\ awstate[w] = "woken"
    /\ LET items == waiters[awname[w]]
           reg == RegTouchAll(registry, items)
       IN  /\ registry' = reg
           /\ awres' = [awres EXCEPT ![w] = [i \in 1..Len(items) |-> RegGet(reg, items[i])]]
    /\ awstate' = [awstate EXCEPT ![w] = "returned"]
    /\ UNCHANGED <<waiters, awname, reg_raised, fret>>
    /\ UNCHANGED <<rpcvars, peervars, replyvars, errvars, mainvars, genvars, dropvars>>

\* -------------------------------------------------------- _async_main
\* The variables of the invocation tasks, which _async_main leaves alone.
rpcidle == <<rpc_tasks, no_more_rpc_tasks, lstate, lstart, lexit, connected, tkind,
             tbehav, tchan, tpc, texit, cs_bound, cs_cancelled, started, fraised,
             frames, nextcid, cancel_returned>>

\* A connection handler that is still running in the root nursery.
HandlerAlive(c) == hstate[c] \in {"handshake", "loop"}

\* any(chan.connected() for chan in chain(*self._peers.values()))
AnyPeerConnected == \E u \in DOMAIN peers : peers[u] # <<>>

\* self.load_modules(): importlib.import_module may raise.
MainLoadModules(ok) ==
    /\ mpc = "load"
    /\ IF ok THEN mpc' = "serve" /\ UNCHANGED main_exc
             ELSE mpc' = "nursery_exit" /\ main_exc' = "ImportError"
    /\ UNCHANGED <<parent_addr, arbiter_up, registered_with_arbiter, server_nursery,
                   caught, unreg_attempted, teardown_waited>>
    /\ UNCHANGED <<rpcvars, peervars, replyvars, errvars, regvars, genvars, dropvars>>

\* nursery.start(self._serve_forever): self._server_nursery is bound, then
\* the listeners are opened (the bind may raise OSError).
MainServe(ok) ==
    /\ mpc = "serve"
    /\ server_nursery' = TRUE
    /\ IF ok THEN mpc' = "parent" /\ UNCHANGED main_exc
             ELSE mpc' = "nursery_exit" /\ main_exc' = "OSError"
    /\ UNCHANGED <<parent_addr, arbiter_up, registered_with_arbiter, caught,
                   unreg_attempted, teardown_waited>>
    /\ UNCHANGED <<rpcvars, peervars, replyvars, errvars, regvars, genvars, dropvars>>

\* `if parent_addr is not None`: connect and handshake.  On OSError the
\* actor cancels itself (no rpc task yet: cancel_server, then the root scope),
\* _parent_chan is None and _process_messages(None) is started, which raises
\* AttributeError at `chan.uid` when it is first run.
MainConnectParent(ok) ==
    /\ mpc = "parent"
    /\ IF ~parent_addr
         THEN /\ mpc' = "register"
              /\ UNCHANGED <<parent_chan, server_cancelled, root_scope, main_exc>>
         ELSE IF ok
         THEN /\ parent_chan' = TRUE
              /\ mpc' = "register"
              /\ UNCHANGED <<server_cancelled, root_scope, main_exc>>
         ELSE /\ cancel_server
              /\ root_scope' = "cancelled"
              /\ parent_chan' = FALSE
              /\ main_exc' = "AttributeError"
              /\ mpc' = "nursery_exit"
    /\ UNCHANGED <<parent_addr, arbiter_up, registered_with_arbiter, server_nursery,
                   caught, unreg_attempted, teardown_waited>>
    /\ UNCHANGED <<rpcidle, peervars, replyvars, errvars, regvars, genvars, dropvars>>

\* get_arbiter and register_actor: OSError when the arbiter is not reached.
MainRegister ==
    /\ mpc = "register"
    /\ IF arbiter_up
         THEN /\ registered_with_arbiter' = TRUE
              /\ mpc' = "started"
              /\ UNCHANGED main_exc
         ELSE /\ main_exc' = "OSError"
              /\ mpc' = "nursery_exit"
              /\ UNCHANGED registered_with_arbiter
    /\ UNCHANGED <<parent_addr, arbiter_up, server_nursery, caught, unreg_attempted,
                   teardown_waited>>
    /\ UNCHANGED <<rpcvars, peervars, replyvars, errvars, regvars, genvars, dropvars>>

\* The arbiter goes away.
ArbiterDown ==
    /\ arbiter_up
    /\ mpc \in {"serve", "parent", "register", "started"}
    /\ arbiter_up' = FALSE
    /\ UNCHANGED <<mpc, parent_addr, registered_with_arbiter, server_nursery, main_exc,
                   caught, unreg_attempted, teardown_waited>>
    /\ UNCHANGED <<rpcvars, peervars, replyvars, errvars, regvars, genvars, dropvars>>

\* Actor.cancel_server() called from outside _async_main (_main calls it when
\* the actor's main function has returned).
MainServerCancelled ==
    /\ mpc = "started"
    /\ ~server_cancelled
    /\ cancel_server
    /\ UNCHANGED <<parent_chan, root_scope>>
    /\ UNCHANGED <<rpcidle, peervars, replyvars, errvars, regvars, mainvars, genvars, dropvars>>

\* Actor.cancel() run for a peer: the server and the root scope are cancelled.
MainCancelled ==
    /\ mpc = "started"
    /\ root_scope = "live"
    /\ cancel_server
    /\ root_scope' = "cancelled"
    /\ mpc' = "nursery_exit"
    /\ UNCHANGED parent_chan
    /\ UNCHANGED <<parent_addr, arbiter_up, registered_with_arbiter, server_nursery,
                   main_exc, caught, unreg_attempted, teardown_waited>>
    /\ UNCHANGED <<rpcidle, peervars, replyvars, errvars, regvars, genvars, dropvars>>

\* A task of the root nursery raises: a message loop (which has sent the
\* error to the parent before it raises again, and only raises when there is
\* a parent) or a connection handler.
MainChildCrash(viaLoop) ==
    /\ mpc = "started"
    /\ root_scope = "live"
    /\ viaLoop => parent_chan
    /\ ~viaLoop => \E c \in Conns : hstate[c] = "handshake"
    /\ parent_sent' = IF viaLoop THEN parent_sent + 1 ELSE parent_sent
    /\ root_scope' = "crashed"
    /\ main_exc' = IF viaLoop THEN "InternalActorError" ELSE "KeyError"
    /\ mpc' = "nursery_exit"
    /\ UNCHANGED <<parent_chan, server_cancelled>>
    /\ UNCHANGED <<parent_addr, arbiter_up, registered_with_arbiter, server_nursery,
                   caught, unreg_attempted, teardown_waited>>
    /\ UNCHANGED <<rpcidle, erridle, peervars, replyvars, regvars, genvars, dropvars>>

\* The channel server accepts a connection while it is open.
MainAccept(c) ==
    /\ mpc = "started"
    /\ server_nursery /\ ~server_cancelled /\ root_scope = "live"
    /\ Accept(c)

\* A connection handler of the root nursery goes on while the scope is live.
MainHandshake(c, u, ok) ==
    /\ root_scope = "live"
    /\ mpc = "started"
    /\ IF ok THEN HandshakeOk(c, u) ELSE HandshakeFail(c)

\* The peer closes, or the root scope is cancelled: the message loop of the
\* connection ends and the handler's finally runs.
MainHandlerFinally(c) ==
    /\ mpc \in {"started", "nursery_exit"}
    /\ HandlerFinally(c)

\* The root scope is cancelled while the handler waits for the handshake.
MainHandlerCancelled(c) ==
    /\ root_scope # "live" \/ mpc = "nursery_exit"
    /\ hstate[c] = "handshake"
    /\ hstate' = [hstate EXCEPT ![c] = "cancelled"]
    /\ UNCHANGED <<peers, peer_connected, no_more_peers, huid, wstate, wuid, wret>>
    /\ UNCHANGED <<rpcvars, replyvars, extvars>>

\* The end of `async with trio.open_nursery()`: every child has finished.
\* An exception leaves the block (a Cancelled of the root scope does not);
\* without one the routine goes to its finally.
MainNurseryExit ==
    /\ \/ mpc = "nursery_exit"
       \/ mpc = "started" /\ server_cancelled
    /\ \A c \in Conns : ~HandlerAlive(c)
    /\ mpc' = IF main_exc = "none" THEN "unreg" ELSE "except"
    /\ UNCHANGED <<parent_addr, arbiter_up, registered_with_arbiter, server_nursery,
                   main_exc, caught, unreg_attempted, teardown_waited>>
    /\ UNCHANGED <<rpcvars, peervars, replyvars, errvars, regvars, genvars, dropvars>>

\* `except Exception`: the traceback is sent to the parent when there is a
\* parent channel; the exception is raised again only when the actor had
\* registered with the arbiter, else it is logged.
MainExcept ==
    /\ mpc = "except"
    /\ caught' = main_exc
    /\ parent_sent' = IF parent_chan THEN parent_sent + 1 ELSE parent_sent
    /\ main_exc' = IF registered_with_arbiter THEN main_exc ELSE "none"
    /\ mpc' = "unreg"
    /\ UNCHANGED <<parent_addr, arbiter_up, registered_with_arbiter, server_nursery,
                   unreg_attempted, teardown_waited>>
    /\ UNCHANGED <<rpcvars, erridle, peervars, replyvars, regvars, genvars, dropvars>>

\* _do_unreg: the arbiter is asked to unregister the actor; an OSError is
\* logged.
do_unreg ==
    /\ mpc = "unreg"
    /\ unreg_attempted' = TRUE
    /\ mpc' = "peers_check"
    /\ UNCHANGED <<parent_addr, arbiter_up, registered_with_arbiter, server_nursery,
                   main_exc, caught, teardown_waited>>
    /\ UNCHANGED <<rpcvars, peervars, replyvars, errvars, regvars, genvars, dropvars>>

\* The finally waits for self._no_more_peers when it is not set and a
\* channel of self._peers is connected.
MainPeersCheck ==
    /\ mpc \in {"peers_check", "peers_wait"}
    /\ IF mpc = "peers_check"
         THEN IF ~no_more_peers /\ AnyPeerConnected
              THEN mpc' = "peers_wait" /\ teardown_waited' = TRUE
              ELSE mpc' = "cancel_server" /\ UNCHANGED teardown_waited
         ELSE /\ no_more_peers
              /\ mpc' = "cancel_server"
              /\ UNCHANGED teardown_waited
    /\ UNCHANGED <<parent_addr, arbiter_up, registered_with_arbiter, server_nursery,
                   main_exc, caught, unreg_attempted>>
    /\ UNCHANGED <<rpcvars, peervars, replyvars, errvars, regvars, genvars, dropvars>>

\* self.cancel_server() at the end of the finally:
\* self._server_nursery.cancel_scope.cancel() raises AttributeError when
\* self._server_nursery is None.  Then the routine returns, or the exception
\* that is propagating leaves it.
MainCancelServer ==
    /\ mpc = "cancel_server"
    /\ IF server_nursery
         THEN /\ cancel_server
              /\ UNCHANGED main_exc
              /\ mpc' = IF main_exc = "none" THEN "returned" ELSE "raised"
         ELSE /\ UNCHANGED server_cancelled
              /\ main_exc' = "AttributeError"
              /\ mpc' = "raised"
    /\ UNCHANGED <<parent_chan, root_scope>>
    /\ UNCHANGED <<parent_addr, arbiter_up, registered_with_arbiter, server_nursery,
                   caught, unreg_attempted, teardown_waited>>
    /\ UNCHANGED <<rpcidle, peervars, replyvars, errvars, regvars, genvars, dropvars>>

\* ------------------------------------------------------ specification
\* Actor.__init__, with the channels' message loops running.
InitRpc(hasparent) ==
    /\ parent_chan = hasparent
    /\ rpc_tasks = <<>>
    /\ no_more_rpc_tasks = TRUE
    /\ server_cancelled = FALSE
    /\ root_scope = "live"
    /\ lstate = [c \in Chans |-> "recv"]
    /\ lstart = [c \in Chans |-> 0]
    /\ lexit = [c \in Chans |-> "none"]
    /\ connected = [c \in Chans |-> TRUE]
    /\ tkind = [k \in Cids |-> "none"]
    /\ tbehav = [k \in Cids |-> "ok"]
    /\ tchan = [k \in Cids |-> 0]
    /\ tpc = [k \in Cids |-> "unborn"]
    /\ texit = [k \in Cids |-> "none"]
    /\ cs_bound = [k \in Cids |-> FALSE]
    /\ cs_cancelled = [k \in Cids |-> FALSE]
    /\ started = [k \in Cids |-> FALSE]
    /\ fraised = [k \in Cids |-> FALSE]
    /\ frames = [k \in Cids |-> <<>>]
    /\ nextcid = 1
    /\ cancel_returned = FALSE

\* Actor.__init__: no peer yet, no inbound connection yet.
InitPeers ==
    /\ peers = <<>>
    /\ peer_connected = {}
    /\ no_more_peers = TRUE
    /\ hstate = [c \in Conns |-> "idle"]
    /\ huid = [c \in Conns |-> 0]
    /\ wstate = [w \in Waiters |-> "idle"]
    /\ wuid = [w \in Waiters |-> 0]
    /\ wret = [w \in Waiters |-> 0]

\* Actor.__init__: no call made yet; cu gives the uid of each channel's peer.
InitReply(cu) ==
    /\ chanuid = cu
    /\ rstate = [c \in Chans |-> "recv"]
    /\ wire = [c \in Chans |-> <<>>]
    /\ peer_closed = [c \in Chans |-> FALSE]
    /\ actors2calls = <<>>
    /\ callchan = [k \in RCids |-> 0]
    /\ emitted = [k \in RCids |-> <<>>]
    /\ readlog = [k \in RCids |-> <<>>]

\* No message without cid received yet, nothing sent to the parent yet.
InitErr ==
    /\ chan_exc = [c \in Chans |-> FALSE]
    /\ loop_exc = [c \in Chans |-> "none"]
    /\ bcast = [c \in Chans |-> <<>>]
    /\ bsize = [c \in Chans |-> 0]
    /\ bcids = [c \in Chans |-> {}]
    /\ parent_sent = 0

\* Arbiter.__init__
InitReg ==
    /\ registry = <<>>
    /\ waiters = <<>>
    /\ awstate = [w \in AWaiters |-> "idle"]
    /\ awname = [w \in AWaiters |-> "none"]
    /\ awres = [w \in AWaiters |-> <<>>]
    /\ reg_raised = FALSE
    /\ fret = NoneValue

\* _async_main has not begun: no server, not registered.
InitMainVars ==
    /\ mpc = "load"
    /\ parent_addr = FALSE
    /\ arbiter_up = TRUE
    /\ registered_with_arbiter = FALSE
    /\ server_nursery = FALSE
    /\ main_exc = "none"
    /\ caught = "none"
    /\ unreg_attempted = FALSE
    /\ teardown_waited = FALSE

\* No invocation task yet.
InitGen == agen = [k \in Cids |-> "none"]

\* No caller has let go of a queue.
InitDrop == dropped = {}

InitExt == InitErr /\ InitReg /\ InitMainVars /\ InitGen /\ InitDrop

Init ==
    /\ \E hasparent \in BOOLEAN : InitRpc(hasparent)
    /\ InitPeers
    /\ InitReply([c \in Chans |-> 1])
    /\ InitExt

\* Spec: every kind of callable but Actor.cancel, every behaviour.
Next ==
    \/ \E k \in Cids : InvokeBegin(k)
    \/ \E k \in Cids : InvokeStartedFunction(k)
    \/ \E k \in Cids : InvokeStartedAsync(k)
    \/ \E k \in Cids : GenYield(k)
    \/ \E k \in Cids : GenEnd(k)
    \/ \E k \in Cids : BodyDone(k)
    \/ \E k \in Cids : ChanFuncPush(k)
    \/ \E k \in Cids : BodyCancelled(k)
    \/ \E k \in Cids : InvokeFinally(k)
    \/ \E c \in Chans, in \in CmdInputs :
          nextcid <= MaxProtoCalls /\ LoopRecvCmd(c, in[1], in[2])
    \/ \E c \in Chans : nextcid <= MaxProtoCalls /\ LoopRecvBadCmd(c)
    \/ \E c \in Chans : LoopStarted(c)
    \/ \E c \in Chans : LoopStartFailed(c)
    \/ \E c \in Chans : LoopRecvSentinel(c)
    \/ \E c \in Chans : LoopEOF(c)
    \/ \E c \in Chans : LoopClose(c)
    \/ \E c \in Chans : LoopCancelled(c)

Spec == Init /\ [][Next]_vars

\* SpecCancel: requests for Actor.cancel among requests for functions that
\* do not raise, on channels whose peer sends requests and terminators.
NextCancel ==
    \/ \E k \in Cids : InvokeBegin(k)
    \/ \E k \in Cids : InvokeStartedFunction(k)
    \/ \E k \in Cids : InvokeStartedAsync(k)
    \/ \E k \in Cids : InvokeStartedCancel(k)
    \/ \E k \in Cids : GenYield(k)
    \/ \E k \in Cids : GenEnd(k)
    \/ \E k \in Cids : BodyCancelled(k)
    \/ \E k \in Cids : CancelResume(k)
    \/ \E k \in Cids : CancelInterrupted(k)
    \/ \E k \in Cids : InvokeFinally(k)
    \/ \E c \in Chans, f \in CancelKinds : LoopRecvCmd(c, f, "ok")
    \/ \E c \in Chans : LoopStarted(c)
    \/ \E c \in Chans : LoopRecvSentinel(c)
    \/ \E c \in Chans : LoopClose(c)
    \/ \E c \in Chans : LoopCancelled(c)

InitCancel ==
    /\ InitRpc(FALSE)
    /\ InitPeers
    /\ InitReply([c \in Chans |-> 1])
    /\ InitExt

SpecCancel == InitCancel /\ [][NextCancel]_vars

\* trio runs every task that can run: each step of an invocation task (its
\* cancellation at the await it waits in included) and of a message loop is
\* taken when it stays possible.  The peers owe no message.
FairCancel ==
    /\ \A k \in Cids :
          /\ WF_vars(InvokeBegin(k))
          /\ WF_vars(InvokeStartedFunction(k))
          /\ WF_vars(InvokeStartedAsync(k))
          /\ WF_vars(InvokeStartedCancel(k))
          /\ WF_vars(GenYield(k))
          /\ WF_vars(GenEnd(k))
          /\ WF_vars(BodyCancelled(k))
          /\ WF_vars(CancelResume(k))
          /\ WF_vars(CancelInterrupted(k))
          /\ WF_vars(InvokeFinally(k))
    /\ \A c \in Chans :
          /\ WF_vars(LoopStarted(c))
          /\ WF_vars(LoopClose(c))
          /\ WF_vars(LoopCancelled(c))

SpecCancelFair == SpecCancel /\ FairCancel

\* SpecPeers: inbound connections and peer lookups.
NextPeers ==
    \/ \E c \in Conns : Accept(c)
    \/ \E c \in Conns : HandshakeFail(c)
    \/ \E c \in Conns, u \in Uids : HandshakeOk(c, u)
    \/ \E c \in Conns : HandlerFinally(c)
    \/ \E u \in Uids : get_chans(u)
    \/ \E w \in Waiters, u \in Uids : wait_for_peer(w, u)
    \/ \E w \in Waiters : WaitReturn(w)

SpecPeers == InitCancel /\ [][NextPeers]_vars

\* SpecReply: calls made by this actor and the replies to them.
InitCaller ==
    /\ InitRpc(FALSE)
    /\ InitPeers
    /\ \E cu \in [Chans -> Uids] : InitReply(cu)
    /\ InitExt

NextReply ==
    \/ \E c \in Chans : send_cmd(c)
    \/ \E k \in RCids, tag \in {"yield", "stop"} : PeerReply(k, tag)
    \/ \E c \in Chans : PeerClose(c)
    \/ \E c \in Chans : ReplyRecv(c)
    \/ \E c \in Chans : ReplyDisconnect(c)
    \/ \E c \in Chans : ReplyBroke(c)
    \/ \E k \in RCids : CallerGet(k)

SpecReply == InitCaller /\ [][NextReply]_vars

\* SpecDrop: calls made by this actor whose callers may let go of the queue
\* while the responder still sends.
NextDrop ==
    \/ \E c \in Chans : send_cmd(c)
    \/ \E k \in RCids, tag \in {"yield", "stop"} : PeerReply(k, tag)
    \/ \E c \in Chans : ReplyRecv(c)
    \/ \E k \in RCids : CallerGet(k)
    \/ \E k \in RCids : CallerDrop(k)

SpecDrop == InitCaller /\ [][NextDrop]_vars

\* SpecError: calls made by this actor, and peers that send an error
\* without a cid.
\* The channels are to one peer, or each to a peer of its own (channel c to
\* the peer c or to the last peer).
InitError ==
    /\ \E hasparent \in BOOLEAN : InitRpc(hasparent)
    /\ InitPeers
    /\ \E cu \in {[c \in Chans |-> 1],
                  [c \in Chans |-> IF c \in Uids THEN c ELSE NumUids]} : InitReply(cu)
    /\ InitExt

NextError ==
    \/ \E c \in Chans : send_cmd(c)
    \/ \E k \in RCids :
          /\ callchan[k] # 0
          /\ rstate[callchan[k]] = "recv"
          /\ Len(emitted[k]) < MaxErrFrames
          /\ PeerReply(k, "yield")
    \/ \E c \in Chans : rstate[c] = "recv" /\ PeerError(c)
    \/ \E c \in Chans : ReplyRecv(c)
    \/ \E c \in Chans : ReplyRecvError(c)
    \/ \E c \in Chans : BroadcastStep(c)
    \/ \E k \in RCids : CallerGet(k)

SpecError == InitError /\ [][NextError]_vars

\* SpecArbiter: the registry of the arbiter and the calls made on it.
NextArbiter ==
    \/ \E i \in 1..Len(ActorIds) : register_actor(ActorIds[i], SockAddr(i))
    \/ \E i \in 1..Len(ActorIds) : unregister_actor(ActorIds[i])
    \/ \E arg \in Names \cup Uuids : find_actor(arg)
    \/ \E w \in AWaiters, n \in Names : wait_for_actor(w, n)
    \/ \E w \in AWaiters : WaitForActorReturn(w)

SpecArbiter == InitCancel /\ [][NextArbiter]_vars

\* _async_main of an actor with or without a parent address, from its first
\* line; _parent_chan is None until the actor has connected to its parent.
InitMain ==
    /\ InitRpc(FALSE)
    /\ InitPeers
    /\ InitReply([c \in Chans |-> 1])
    /\ InitErr
    /\ InitReg
    /\ InitGen
    /\ InitDrop
    /\ mpc = "load"
    /\ parent_addr \in BOOLEAN
    /\ arbiter_up \in BOOLEAN
    /\ registered_with_arbiter = FALSE
    /\ server_nursery = FALSE
    /\ main_exc = "none"
    /\ caught = "none"
    /\ unreg_attempted = FALSE
    /\ teardown_waited = FALSE

NextMain ==
    \/ \E ok \in BOOLEAN : MainLoadModules(ok)
    \/ \E ok \in BOOLEAN : MainServe(ok)
    \/ \E ok \in BOOLEAN : MainConnectParent(ok)
    \/ MainRegister
    \/ ArbiterDown
    \/ MainServerCancelled
    \/ MainCancelled
    \/ \E viaLoop \in BOOLEAN : MainChildCrash(viaLoop)
    \/ \E c \in Conns : MainAccept(c)
    \/ \E c \in Conns, u \in Uids, ok \in BOOLEAN : MainHandshake(c, u, ok)
    \/ \E c \in Conns : MainHandlerFinally(c)
    \/ \E c \in Conns : MainHandlerCancelled(c)
    \/ MainNurseryExit
    \/ MainExcept
    \/ do_unreg
    \/ MainPeersCheck
    \/ MainCancelServer

SpecMain == InitMain /\ [][NextMain]_vars

\* ------------------------------------------------------------- claims
Exited(k) == tpc[k] \in {"done", "crashed"}
Alive(k) == tpc[k] \notin {"unborn", "done", "crashed"}

\* The call ran to its end: its task reached the finally neither cancelled
\* nor with an exception still propagating.
Completed(k) == Exited(k) /\ texit[k] = "normal"

NoTaskListed == \A c \in DOMAIN rpc_tasks : rpc_tasks[c] = <<>>

\* C2: no_more_rpc_tasks is set if and only if no channel has a non-empty
\* task list.  Stated for the states in which no invocation task is alive,
\* where no bookkeeping is pending: the claim says it of every state.
C2_NoMoreRpcTasksIffEmpty ==
    (\A k \in Cids : ~Alive(k)) => (no_more_rpc_tasks <=> NoTaskListed)

\* C3: the first frame sent for a call id is a functype frame, and it is the
\* only functype frame of the call.
C3_FunctypeFirst ==
    \A k \in Cids :
        frames[k] # <<>> =>
            /\ frames[k][1] \in FunctypeTags
            /\ CountTags(frames[k], FunctypeTags) = 1

AtMostOneTerminalLast(s) ==
    /\ CountTags(s, TerminalTags) <= 1
    /\ CountTags(s, TerminalTags) = 1 => s[Len(s)] \in TerminalTags

\* C4 as claimed: every completed call has exactly one terminal frame, and it
\* is the last frame of the call.
C4_OneTerminalEveryCall ==
    \A k \in Cids :
        Completed(k) =>
            CountTags(frames[k], TerminalTags) = 1 /\ AtMostOneTerminalLast(frames[k])

\* C4 as amended: for a callable that does not declare `chan`, a call has at
\* most one terminal frame, no frame follows it, and a completed call has
\* exactly one.
C4_OneTerminalUnlessChanFunc ==
    \A k \in Cids :
        tkind[k] \notin {"none", "chanfunc"} =>
            /\ AtMostOneTerminalLast(frames[k])
            /\ Completed(k) => CountTags(frames[k], TerminalTags) = 1

C4_Witness ==
    \E k \in Cids :
        /\ Completed(k)
        /\ frames[k] = <<"functype:asyncgen", "yield", "stop">>

\* C5: once the message loop has processed the terminator of a channel, no
\* further frame is sent for a streaming call of that channel.
C5_NoFrameAfterTerminator ==
    [][\A k \in Cids :
          (tkind[k] = "asyncgen" /\ lexit[tchan[k]] = "sentinel")
              => frames'[k] = frames[k]]_vars

\* C7: when the requested function raises, the task sends one error frame
\* and ends normally, and the message loop of the channel is not ended by it.
C7_ExceptionIsolated ==
    \A k \in Cids :
        (fraised[k] /\ Exited(k)) =>
            /\ tpc[k] = "done"
            /\ texit[k] = "normal" => CountTags(frames[k], {"error"}) = 1
            /\ ~(lexit[tchan[k]] = "start_failed" /\ lstart[tchan[k]] = k)

\* C8: cancel() cancels the root scope only after the server scope, and never
\* while an entry remains in rpc_tasks.
C8_RootCancelledLast ==
    [][(root_scope = "live" /\ root_scope' = "cancelled")
          => (server_cancelled' /\ DOMAIN rpc_tasks' = {})]_vars

\* C9 as claimed: after cancel() has returned no invocation task is alive
\* (the task that ran cancel() itself is not counted) and the server and root
\* scopes are cancelled.
C9_NothingAlive ==
    cancel_returned =>
        /\ server_cancelled /\ root_scope # "live"
        /\ \A k \in Cids : tkind[k] # "cancel" => ~Alive(k)

\* C9 as amended: after cancel() has returned the server scope and the root
\* scope are cancelled; a task still alive is inside the cancelled root scope.
C9_ScopesCancelled ==
    cancel_returned => (server_cancelled /\ root_scope # "live")

C9_Witness ==
    /\ cancel_returned
    /\ \E k \in Cids : tkind[k] = "asyncgen" /\ cs_cancelled[k] /\ tpc[k] = "done"
    /\ \E k \in Cids : tkind[k] # "cancel" /\ Alive(k)

NoChannelHeld == \A u \in DOMAIN peers : peers[u] = <<>>

\* C1: no_more_peers is set if and only if the peers table holds no channel.
\* Stated for the states in which no handshake is in progress: the claim says
\* it of every state.
C1_NoMorePeersIffNoChannel ==
    (\A c \in Conns : hstate[c] # "handshake") => (no_more_peers <=> NoChannelHeld)

\* The queue of call k, and the frames of call k still on its channel.
InboxOf(k) == DictGet(actors2calls, <<chanuid[callchan[k]], k>>)
OnWire(k) == SelectSeq(wire[callchan[k]], LAMBDA m : m.cid = k)
HasTerminal(s) == \E i \in 1..Len(s) : s[i].tag \in TerminalTags

\* C6: when the message loop of a channel has ended on a disconnect, every
\* call made on that channel has a terminal message read or in its inbox.
C6_DisconnectPushesError ==
    \A k \in RCids :
        (callchan[k] # 0 /\ rstate[callchan[k]] \in {"disconnected", "broke"})
            => HasTerminal(readlog[k] \o InboxOf(k))

\* C10: the messages read for a call, then those in its inbox, then those
\* still on the channel, are the frames the responder emitted for it, in that
\* order; no other inbox holds a message of the call.
C10_RepliesInOrder ==
    \A k \in RCids :
        callchan[k] # 0 =>
            /\ readlog[k] \o InboxOf(k) \o OnWire(k) = emitted[k]
            /\ \A key \in DOMAIN actors2calls :
                  key # <<chanuid[callchan[k]], k>> =>
                      \A i \in 1..Len(actors2calls[key]) : actors2calls[key][i].cid # k

C10_Witness ==
    /\ \A k \in RCids :
          /\ callchan[k] # 0
          /\ Len(emitted[k]) = MaxFrames
          /\ Len(readlog[k]) >= 1
    /\ \E k \in RCids : Len(InboxOf(k)) = QueueSize
    /\ callchan[1] = callchan[2]

\* The next message of channel c is a reply for a call whose inbox is full.
HeadBlocked(c) ==
    /\ rstate[c] = "recv"
    /\ wire[c] # <<>>
    /\ Len(DictGet(actors2calls, <<chanuid[c], Head(wire[c]).cid>>)) = QueueSize

\* C11: while the inbox of the next reply of a channel is full, the message
\* loop takes no message of that channel: the messages received and not yet
\* processed stay, in their order, and no inbox of the peer gets a message.
C11_FullInboxBlocksLoop ==
    [][\A c \in Chans :
          HeadBlocked(c) =>
              /\ Len(wire'[c]) >= Len(wire[c])
              /\ SubSeq(wire'[c], 1, Len(wire[c])) = wire[c]
              /\ \A k \in RCids :
                    callchan[k] = c => Len(InboxOf(k)') <= Len(InboxOf(k))]_vars

C11_Witness ==
    \E c \in Chans :
        /\ HeadBlocked(c)
        /\ Len(wire[c]) >= 2
        /\ wire[c][2].cid # wire[c][1].cid

\* The error message without cid has been put in the inbox of call k.
HasError(k) ==
    \E i \in 1..Len(readlog[k] \o InboxOf(k)) :
        (readlog[k] \o InboxOf(k))[i] = [cid |-> 0, n |-> 0, tag |-> "error"]

Registered(reg, name) ==
    {i \in 1..Len(ActorIds) :
        ActorIds[i][1] = name /\ <<"uid", ActorIds[i]>> \in RegKeys(reg)}
RegisteredAddrs(reg, name) == {SockAddr(i) : i \in Registered(reg, name)}

\* C13: a register_actor under a name that has a registered actor completes
\* without error and find_actor(name) then returns the address of one of the
\* actors of that name; after an unregister_actor that leaves one actor of
\* the name, find_actor(name) returns the address of that one.
C13_SameNameRegisters ==
    [][/\ \A i \in 1..Len(ActorIds) :
            (register_actor(ActorIds[i], SockAddr(i))
                /\ Registered(registry, ActorIds[i][1]) \ {i} # {}) =>
                /\ ~reg_raised'
                /\ FindResult(registry', ActorIds[i][1])
                      \in RegisteredAddrs(registry', ActorIds[i][1])
       /\ \A i \in 1..Len(ActorIds) :
            (unregister_actor(ActorIds[i])
                /\ Cardinality(Registered(registry', ActorIds[i][1])) = 1) =>
                FindResult(registry', ActorIds[i][1])
                    \in RegisteredAddrs(registry', ActorIds[i][1])]_vars

\* C14: register_actor puts the address in the registry, fires every event
\* pending under the name and leaves no event in the waiter list of the name.
C14_RegisterFiresWaiters ==
    [][\A i \in 1..Len(ActorIds) :
          register_actor(ActorIds[i], SockAddr(i)) =>
              /\ RegGet(registry', <<"uid", ActorIds[i]>>) = SockAddr(i)
              /\ \A w \in AWaiters :
                    (awstate[w] = "waiting" /\ awname[w] = ActorIds[i][1])
                        => awstate'[w] = "woken"
              /\ \A x \in 1..Len(waiters'[ActorIds[i][1]]) :
                    waiters'[ActorIds[i][1]][x][1] # "event"]_vars

\* C15: wait_for_actor returns at once the addresses registered under the
\* name when there is one; a call that waits is woken by the next
\* register_actor of the name, and returns a non-empty list of addresses of
\* registered actors of the name, the new one among them.
C15_WaitForActorReturns ==
    [][/\ \A w \in AWaiters, n \in Names :
            (wait_for_actor(w, n) /\ Registered(registry, n) # {}) =>
                /\ awstate'[w] = "returned"
                /\ awres'[w] = AddrsOf(registry, n)
       /\ \A i \in 1..Len(ActorIds) :
            register_actor(ActorIds[i], SockAddr(i)) =>
                \A w \in AWaiters :
                    (awstate[w] = "waiting" /\ awname[w] = ActorIds[i][1])
                        => awstate'[w] = "woken"
       /\ \A w \in AWaiters :
            WaitForActorReturn(w) =>
                /\ awres'[w] # <<>>
                /\ \A x \in 1..Len(awres'[w]) :
                      awres'[w][x] \in RegisteredAddrs(registry, awname[w])]_vars

\* C16: after a register_actor of a new uid under a name that has a
\* registered actor, find_actor(name) returns the address just registered.
C16_FindReturnsLastRegistered ==
    [][\A i \in 1..Len(ActorIds) :
          (register_actor(ActorIds[i], SockAddr(i))
              /\ i \notin Registered(registry, ActorIds[i][1])
              /\ Registered(registry, ActorIds[i][1]) # {}) =>
              FindResult(registry', ActorIds[i][1]) = SockAddr(i)]_vars

\* C17: find_actor(arg) returns the address of a registered actor whose name
\* is arg, and nothing when no registered actor has that name.
C17_FindMatchesName ==
    [][\A arg \in Names \cup Uuids :
          find_actor(arg) =>
              IF Registered(registry, arg) = {}
              THEN fret' = NoneValue
              ELSE fret' \in RegisteredAddrs(registry, arg)]_vars

\* C18: once the actor has connected to its parent, `except Exception` of
\* _async_main sends the exception to the parent, and the exception it has
\* caught leaves _async_main, also when the actor has not registered with
\* the arbiter yet.
C18_ErrorShippedAndReraised ==
    /\ [][(mpc = "except" /\ parent_chan)
            => (parent_sent' = parent_sent + 1 /\ main_exc' = main_exc)]_vars
    /\ []((parent_chan /\ caught # "none" /\ mpc \in {"returned", "raised"})
            => (mpc = "raised" /\ main_exc = caught))

\* C19: when _async_main has ended, the arbiter was asked to unregister the
\* actor, the server scope is cancelled and no exception but the one caught
\* by `except Exception` leaves the routine; the finally only waits for
\* no_more_peers while a channel of a peer is connected.
C19_TeardownCompletes ==
    /\ mpc \in {"returned", "raised"}
         => /\ unreg_attempted
            /\ server_cancelled
            /\ main_exc \in {"none", caught}
    /\ (mpc = "peers_wait" /\ ~no_more_peers) => AnyPeerConnected

\* C20: an invocation task that iterates an async generator has left the
\* iteration (by cancellation of its scope or of the root scope, or
\* otherwise) only with the generator closed: the generator's finally
\* regions have run before the task's own finally and its exit.
C20_GeneratorClosedOnCancel ==
    \A k \in Cids :
        (tkind[k] = "asyncgen" /\ started[k] /\ tpc[k] \in {"exiting", "done", "crashed"})
            => agen[k] = "closed"

\* A generator task that had sent an item was cancelled with the root scope
\* and has exited.
C20_Witness ==
    \E k \in Cids :
        /\ tkind[k] = "asyncgen"
        /\ texit[k] = "cancelled"
        /\ CountTags(frames[k], {"yield"}) >= 1
        /\ tpc[k] = "done"
        /\ agen[k] = "closed"

\* The message loop of channel c takes the terminate sentinel in this step.
SentinelStep(c) == lstate[c] = "recv" /\ lexit'[c] = "sentinel" /\ lexit[c] = "none"

\* C21: the step that takes the sentinel of channel c cancels the scope of
\* every task listed under c, changes neither the list nor a scope of another
\* channel, and ends the loop: afterwards the loop of c receives nothing and
\* no task is started for c.
C21_SentinelCancelsChannel ==
    [][\A c \in Chans :
          /\ SentinelStep(c) =>
                /\ \A k \in Cids : Contains(DictGet(rpc_tasks, c), k) => cs_cancelled'[k]
                /\ \A k \in Cids : ~Contains(DictGet(rpc_tasks, c), k)
                                      => cs_cancelled'[k] = cs_cancelled[k]
                /\ \A d \in Chans \ {c} : DictGet(rpc_tasks', d) = DictGet(rpc_tasks, d)
                /\ lstate'[c] \notin {"recv", "starting"}
          /\ lexit[c] = "sentinel" =>
                /\ lstate'[c] \notin {"recv", "starting"}
                /\ \A k \in Cids : tchan'[k] = c => tchan[k] = c]_vars

\* The sentinel of a channel was taken while that channel and another one
\* each had a task listed: the first task is cancelled, the other one is not
\* and is still listed.
C21_Witness ==
    \E c \in Chans, k \in Cids, j \in Cids :
        /\ lexit[c] = "sentinel"
        /\ tchan[k] = c /\ cs_cancelled[k]
        /\ tchan[j] \notin {0, c}
        /\ Contains(DictGet(rpc_tasks, tchan[j]), j)
        /\ ~cs_cancelled[j]

\* The entry (cs, func) of call k is in the list of its channel.
Listed(rt, k) == \E c \in DOMAIN rt : Contains(rt[c], k)

\* The message loop that started call k has resumed from nursery.start.
LoopResumed(k) == ~(lstate[tchan[k]] = "starting" /\ lstart[tchan[k]] = k)

\* C22: a call of Actor.cancel is never listed in rpc_tasks, its start never
\* clears no_more_rpc_tasks and its scope is never cancelled by a sentinel or
\* by cancel_rpc_tasks; the scope of every other call that has started is
\* listed under its channel when the loop resumes; the task of a call removes
\* its own entry, and only it, when it exits, so that no entry of an exited
\* task is left.
C22_OnlyOwnEntryRemoved ==
    /\ [](\A k \in Cids :
            tkind[k] = "cancel" => (~Listed(rpc_tasks, k) /\ ~cs_cancelled[k]))
    /\ [][\A c \in Chans :
            (lstate[c] = "starting" /\ lstate'[c] = "recv")
                => IF tkind[lstart[c]] = "cancel"
                     THEN no_more_rpc_tasks' = no_more_rpc_tasks
                     ELSE Contains(DictGet(rpc_tasks', c), lstart[c])]_vars
    /\ [][\A k \in Cids :
            (tpc[k] = "exiting" /\ tpc'[k] # "exiting")
                => /\ ~Listed(rpc_tasks', k)
                   /\ \A j \in Cids \ {k} : Listed(rpc_tasks', j) = Listed(rpc_tasks, j)]_vars
    /\ [](\A k \in Cids : (Exited(k) /\ LoopResumed(k)) => ~Listed(rpc_tasks, k))

\* C23: once the caller has let go of the queue of a call, the message loop
\* puts no message of that call in a queue and makes no queue for it.
C23_StaleReplyDiscarded ==
    [][\A k \in dropped :
          /\ Len(InboxOf(k)') <= Len(InboxOf(k))
          /\ (<<chanuid[callchan[k]], k>> \in DOMAIN actors2calls')
                => (<<chanuid[callchan[k]], k>> \in DOMAIN actors2calls)]_vars

\* C24: a call of Actor.cancel that waits in cancel_rpc_tasks for
\* no_more_rpc_tasks does not wait for ever.
C24_CancelReturns ==
    \A k \in Cids : (tpc[k] = "cancel_wait") ~> (tpc[k] # "cancel_wait")

\* The message loop has appended the entry of call k to rpc_tasks: the call
\* is not one of Actor.cancel, its task has called started() and the loop of
\* its channel has resumed from nursery.start (and was not cancelled).
Published(k) ==
    /\ tkind[k] \notin {"none", "cancel"}
    /\ started[k]
    /\ LoopResumed(k)
    /\ lexit[tchan[k]] \notin {"start_failed", "cancelled"}

\* C25: while no_more_rpc_tasks is set, no invocation task whose entry was
\* appended to rpc_tasks is still running.
C25_NoTaskRunsWhenSignalled ==
    no_more_rpc_tasks => \A k \in Cids : Published(k) => ~Alive(k)

\* C26: a call of wait_for_peer(uid) always waits first; it is only woken by
\* the step in which a connection handler completes the handshake of a
\* channel of uid; once woken it returns the last channel of peers[uid],
\* which is not empty then.
C26_WaitForPeerReturnsChannel ==
    [][\A w \in Waiters :
          /\ wstate[w] = "idle" => wstate'[w] \in {"idle", "waiting"}
          /\ (wstate[w] = "waiting" /\ wstate'[w] # "waiting")
                => /\ wstate'[w] = "woken"
                   /\ \E c \in Conns : /\ hstate[c] = "handshake"
                                       /\ hstate'[c] = "loop"
                                       /\ huid'[c] = wuid[w]
          /\ (wstate[w] = "woken" /\ wstate'[w] # "woken")
                => /\ DictGet(peers, wuid[w]) # <<>>
                   /\ wstate'[w] = "returned"
                   /\ wret'[w] = peers[wuid[w]][Len(peers[wuid[w]])]]_vars

\* The message loop of channel c takes, in this step, a request whose
\* function cannot be resolved.
BadCmdStep(c) == lexit[c] = "none" /\ lexit'[c] = "lookup_failed"

\* C27: a request whose namespace or function cannot be resolved starts no
\* task and has no frame sent for its call id; the loop of its channel leaves
\* through its exception path and takes no further message; with a parent
\* channel one error frame goes to the parent and the exception is raised
\* again, into the root nursery, and without one nothing is sent and the
\* root scope is left as it is.
C27_UnresolvedCmdEndsLoop ==
    /\ [](\A k \in Cids :
            tkind[k] = "unresolved" =>
                /\ tpc[k] = "unborn"
                /\ frames[k] = <<>>
                /\ lexit[tchan[k]] = "lookup_failed"
                /\ lstate[tchan[k]] \in {"closing", "closed"})
    /\ [][\A c \in Chans :
            /\ BadCmdStep(c) =>
                  /\ parent_sent' = IF parent_chan THEN parent_sent + 1 ELSE parent_sent
                  /\ tpc' = tpc /\ frames' = frames
            /\ (lexit[c] = "lookup_failed" /\ lstate[c] = "closing" /\ lstate'[c] = "closed")
                  => IF parent_chan THEN root_scope' # "live"
                                    ELSE root_scope' = root_scope]_vars

\* The loop of a channel has ended on an unresolved request, in an actor with
\* a parent, while a call of another channel had been served.
C27_Witness ==
    \E k \in Cids, j \in Cids :
        /\ tkind[k] = "unresolved"
        /\ lstate[tchan[k]] = "closed"
        /\ parent_chan /\ parent_sent = 1 /\ root_scope = "crashed"
        /\ tchan[j] \notin {0, tchan[k]}
        /\ frames[j] # <<>>

====
